---------------------------- MODULE Spec2Model ----------------------------
(***************************************************************************)
(* A model of the gotoon codec (package toon): Marshal / MarshalWithOptions *)
(* (toon.go, encoder.go), Unmarshal (toon.go, decoder.go) and Valid        *)
(* (toon.go).                                                              *)
(*                                                                         *)
(* A text is a sequence of one-character strings.  A Go type is a record   *)
(* with a "kind" field (reflect.Kind); a Go value is a record with "kind"  *)
(* and "val".  The encoder and the decoder are operators that follow the   *)
(* source function by function; the loops of the source are the RECURSIVE  *)
(* operators whose names end in Loop or From.                              *)
(***************************************************************************)
EXTENDS Integers, Sequences, FiniteSets, TLC

\* reflect.Type.Kind and reflect.Value.Kind
Kind(x) == x.kind

\* what a caller passes to MarshalWithOptions
Call(o, t, v) == [opts |-> o, typ |-> t, val |-> v]

(***************************************************************************)
(* Characters with a role in the format.                                   *)
(***************************************************************************)
TAB == "\t"
NL == "\n"
QUOTE == "\""
BSLASH == "\\"
SP == " "

\* unicode.IsSpace, restricted to the characters the model uses
WhiteSpace == {SP, TAB, NL, "\r"}

DigitChars == <<"0", "1", "2", "3", "4", "5", "6", "7", "8", "9">>
DigitSet == {DigitChars[i] : i \in 1..10}

DigitVal(c) == (CHOOSE i \in 1..10 : DigitChars[i] = c) - 1

(***************************************************************************)
(* package strings                                                         *)
(***************************************************************************)
Contains(s, c) == \E i \in 1..Len(s) : s[i] = c

ContainsAny(s, cs) == \E i \in 1..Len(s) : s[i] \in cs

\* strings.Index for a one-character separator; 0 when absent
IndexOf(s, c) == IF Contains(s, c) THEN CHOOSE i \in 1..Len(s) : s[i] = c /\ \A j \in 1..(i-1) : s[j] # c ELSE 0

RECURSIVE Split(_, _)
Split(s, c) ==
    LET i == IndexOf(s, c)
    IN IF i = 0 THEN <<s>>
       ELSE <<SubSeq(s, 1, i - 1)>> \o Split(SubSeq(s, i + 1, Len(s)), c)

\* strings.SplitN(s, c, 2)
SplitN2(s, c) ==
    LET i == IndexOf(s, c)
    IN IF i = 0 THEN <<s>> ELSE <<SubSeq(s, 1, i - 1), SubSeq(s, i + 1, Len(s))>>

RECURSIVE Join(_, _)
Join(parts, sep) ==
    IF Len(parts) = 0 THEN <<>>
    ELSE IF Len(parts) = 1 THEN parts[1]
    ELSE parts[1] \o sep \o Join(Tail(parts), sep)

RECURSIVE TrimLeft(_)
TrimLeft(s) == IF Len(s) > 0 /\ s[1] \in WhiteSpace THEN TrimLeft(Tail(s)) ELSE s

RECURSIVE TrimRight(_)
TrimRight(s) ==
    IF Len(s) > 0 /\ s[Len(s)] \in WhiteSpace THEN TrimRight(SubSeq(s, 1, Len(s) - 1)) ELSE s

TrimSpace(s) == TrimRight(TrimLeft(s))

HasPrefix(s, p) == Len(s) >= Len(p) /\ SubSeq(s, 1, Len(p)) = p

\* strings.ReplaceAll(s, `"`, `\"`)
RECURSIVE EscapeQuotes(_)
EscapeQuotes(s) ==
    IF Len(s) = 0 THEN <<>>
    ELSE IF s[1] = QUOTE THEN <<BSLASH, QUOTE>> \o EscapeQuotes(Tail(s))
    ELSE <<s[1]>> \o EscapeQuotes(Tail(s))

\* strings.ReplaceAll(s, `\"`, `"`)
RECURSIVE UnescapeQuotes(_)
UnescapeQuotes(s) ==
    IF Len(s) = 0 THEN <<>>
    ELSE IF Len(s) >= 2 /\ s[1] = BSLASH /\ s[2] = QUOTE
         THEN <<QUOTE>> \o UnescapeQuotes(SubSeq(s, 3, Len(s)))
    ELSE <<s[1]>> \o UnescapeQuotes(Tail(s))

\* strings.ToLower of one character, for the letters field names start with
UpperChars == <<"A", "B", "F", "I", "N", "S", "T", "U">>
LowerChars == <<"a", "b", "f", "i", "n", "s", "t", "u">>
ToLowerChar(c) ==
    IF \E i \in 1..Len(UpperChars) : UpperChars[i] = c
    THEN LowerChars[CHOOSE i \in 1..Len(UpperChars) : UpperChars[i] = c]
    ELSE c

(***************************************************************************)
(* package strconv / fmt, for the values within the model's bounds         *)
(***************************************************************************)
RECURSIVE NatDigits(_)
NatDigits(n) == IF n < 10 THEN <<DigitChars[n + 1]>> ELSE NatDigits(n \div 10) \o <<DigitChars[(n % 10) + 1]>>

\* fmt.Sprintf("%d", n)
FormatInt(n) == IF n < 0 THEN <<"-">> \o NatDigits(0 - n) ELSE NatDigits(n)

AllDigits(s) == Len(s) > 0 /\ \A i \in 1..Len(s) : s[i] \in DigitSet

RECURSIVE DigitsVal(_)
DigitsVal(s) == IF Len(s) = 0 THEN 0 ELSE DigitsVal(SubSeq(s, 1, Len(s) - 1)) * 10 + DigitVal(s[Len(s)])

\* strconv.ParseInt(s, 10, 64): an optional sign, then digits
ParseInt(s) ==
    LET signed == Len(s) > 0 /\ s[1] \in {"+", "-"}
        body == IF signed THEN Tail(s) ELSE s
    IN IF AllDigits(body)
       THEN [ok |-> TRUE, val |-> IF signed /\ s[1] = "-" THEN 0 - DigitsVal(body) ELSE DigitsVal(body)]
       ELSE [ok |-> FALSE, val |-> 0]

\* strconv.ParseUint(s, 10, 64): digits only
ParseUint(s) ==
    IF AllDigits(s) THEN [ok |-> TRUE, val |-> DigitsVal(s)] ELSE [ok |-> FALSE, val |-> 0]

\* A float64 is the decimal num / 10^scale, with no trailing zero in the
\* fraction; the model's floats stay in the range %g prints without exponent.
RECURSIVE NormFloat(_, _)
NormFloat(num, scale) ==
    IF num = 0 THEN [num |-> 0, scale |-> 0]
    ELSE IF scale > 0 /\ num % 10 = 0 THEN NormFloat(num \div 10, scale - 1)
    ELSE [num |-> num, scale |-> scale]

RECURSIVE PadDigits(_, _)
PadDigits(ds, n) == IF Len(ds) >= n THEN ds ELSE PadDigits(<<"0">> \o ds, n)

\* fmt.Sprintf("%g", f)
FormatFloat(f) ==
    LET mag == IF f.num < 0 THEN 0 - f.num ELSE f.num
        ds == PadDigits(NatDigits(mag), f.scale + 1)
        ip == SubSeq(ds, 1, Len(ds) - f.scale)
        fp == SubSeq(ds, Len(ds) - f.scale + 1, Len(ds))
    IN (IF f.num < 0 THEN <<"-">> ELSE <<>>) \o ip \o (IF f.scale > 0 THEN <<".">> \o fp ELSE <<>>)

\* strconv.ParseFloat(s, 64) on decimal text: an optional sign, digits with
\* an optional fraction.  The exponent, hexadecimal, inf and nan forms need
\* letters next to digits or the words inf/nan, which no value text of the
\* model holds.
ParseFloat(s) ==
    LET signed == Len(s) > 0 /\ s[1] \in {"+", "-"}
        body == IF signed THEN Tail(s) ELSE s
        dot == IndexOf(body, ".")
        ip == IF dot = 0 THEN body ELSE SubSeq(body, 1, dot - 1)
        fp == IF dot = 0 THEN <<>> ELSE SubSeq(body, dot + 1, Len(body))
        wellFormed == /\ Len(ip) + Len(fp) > 0
                      /\ \A i \in 1..Len(ip) : ip[i] \in DigitSet
                      /\ \A i \in 1..Len(fp) : fp[i] \in DigitSet
        mag == DigitsVal(ip \o fp)
    IN IF wellFormed
       THEN [ok |-> TRUE, val |-> NormFloat(IF signed /\ s[1] = "-" THEN 0 - mag ELSE mag, Len(fp))]
       ELSE [ok |-> FALSE, val |-> [num |-> 0, scale |-> 0]]

TrueTexts == {<<"1">>, <<"t">>, <<"T">>, <<"T", "R", "U", "E">>, <<"t", "r", "u", "e">>, <<"T", "r", "u", "e">>}
FalseTexts == {<<"0">>, <<"f">>, <<"F">>, <<"F", "A", "L", "S", "E">>, <<"f", "a", "l", "s", "e">>, <<"F", "a", "l", "s", "e">>}

\* strconv.ParseBool
ParseBool(s) ==
    IF s \in TrueTexts THEN [ok |-> TRUE, val |-> TRUE]
    ELSE IF s \in FalseTexts THEN [ok |-> TRUE, val |-> FALSE]
    ELSE [ok |-> FALSE, val |-> FALSE]

\* fmt.Sprintf("%t", b)
FormatBool(b) == IF b THEN <<"t", "r", "u", "e">> ELSE <<"f", "a", "l", "s", "e">>

(***************************************************************************)
(* Go types (reflect.Type) and values (reflect.Value)                      *)
(***************************************************************************)
StringT == [kind |-> "string"]
IntT == [kind |-> "int"]
FloatT == [kind |-> "float64"]
BoolT == [kind |-> "bool"]
FuncT == [kind |-> "func"]
ChanT == [kind |-> "chan"]
PtrT(e) == [kind |-> "ptr", elem |-> e]
SliceT(e) == [kind |-> "slice", elem |-> e]
StructT(fs) == [kind |-> "struct", fields |-> fs]
MapT(k, e) == [kind |-> "map", key |-> k, elem |-> e]
InterfaceT == [kind |-> "interface"]

\* reflect.StructField: the Go name, the `toon` and `json` tags, the type
Field(name, toon, t) == [name |-> name, toon |-> toon, json |-> <<>>, exported |-> TRUE, type |-> t]

StrV(s) == [kind |-> "string", val |-> s]
IntV(n) == [kind |-> "int", val |-> n]
FloatV(num, scale) == [kind |-> "float64", val |-> NormFloat(num, scale)]
BoolV(b) == [kind |-> "bool", val |-> b]
NilPtr == [kind |-> "ptr", val |-> <<>>]
PtrTo(v) == [kind |-> "ptr", val |-> <<v>>]
StructV(fs) == [kind |-> "struct", val |-> fs]
NilSlice == [kind |-> "slice", val |-> [isNil |-> TRUE, elems |-> <<>>]]
SliceV(es) == [kind |-> "slice", val |-> [isNil |-> FALSE, elems |-> es]]
\* a func or chan value is known by what %v prints for it
FuncV(shown) == [kind |-> "func", val |-> shown]
ChanV(shown) == [kind |-> "chan", val |-> shown]

IsNil(v) == Len(v.val) = 0

\* an interface value: nil, or the dynamic value it holds
NilInterface == [kind |-> "interface", val |-> <<>>]
InterfaceOf(v) == [kind |-> "interface", val |-> <<v>>]
Int64V(n) == [kind |-> "int64", val |-> n]

\* a map holds a set of <<key, element>> pairs, one pair a key; the encoder
\* works on the sequence reflect's MapKeys returned, where entries is that
\* sequence
NilMap == [kind |-> "map", val |-> [isNil |-> TRUE, entries |-> {}]]
MapV(entries) == [kind |-> "map", val |-> [isNil |-> FALSE, entries |-> entries]]

\* reflect.Zero / the value a declared variable starts with
RECURSIVE Zero(_)
Zero(t) ==
    CASE t.kind = "string" -> StrV(<<>>)
      [] t.kind = "int" -> IntV(0)
      [] t.kind = "float64" -> FloatV(0, 0)
      [] t.kind = "bool" -> BoolV(FALSE)
      [] t.kind = "ptr" -> NilPtr
      [] t.kind = "slice" -> NilSlice
      [] t.kind = "struct" -> StructV([i \in 1..Len(t.fields) |-> Zero(t.fields[i].type)])
      [] t.kind = "map" -> NilMap
      [] t.kind = "interface" -> NilInterface
      [] t.kind = "func" -> FuncV(<<"<", "n", "i", "l", ">">>)
      [] t.kind = "chan" -> ChanV(<<"<", "n", "i", "l", ">">>)

DASH == <<"-">>

\* getFieldName (encoder.go and decoder.go hold the same code): the toon
\* tag up to its first comma, else the json tag, else the Go name with its
\* first letter in lower case
getFieldName(field) ==
    IF field.toon # <<>> THEN Split(field.toon, ",")[1]
    ELSE IF field.json # <<>> THEN Split(field.json, ",")[1]
    ELSE IF Len(field.name) > 0 THEN <<ToLowerChar(field.name[1])>> \o Tail(field.name)
    ELSE field.name

(***************************************************************************)
(* MarshalOptions (toon.go)                                                *)
(***************************************************************************)
DelimiterComma == <<",">>
DelimiterTab == <<TAB>>
DelimiterPipe == <<"|">>

DefaultIndent == 2

DefaultMarshalOptions == [Indent |-> DefaultIndent, Delimiter |-> DelimiterComma, UseTabular |-> TRUE]

(***************************************************************************)
(* The encoder (encoder.go).  An encoding step yields the text it appends  *)
(* to the buffer and how it ended: "ok"; "hang", it entered a loop that    *)
(* has no exit; "panic", a reflect call panicked.                          *)
(***************************************************************************)
Wrote(text) == [out |-> text, st |-> "ok"]

\* run second after first, unless first did not return
Then(first, second) ==
    IF first.st # "ok" THEN first ELSE [out |-> first.out \o second.out, st |-> second.st]

writeIndent(opts, depth) == [i \in 1..(depth * opts.Indent) |-> SP]

\* a variant that leaves the comma out
QuoteTriggersNoComma == {"|", TAB, NL}

\* the characters that make writePrimitiveValue quote a string
QuoteTriggers == {",", "|", TAB, NL}

\* the loops `for v.Kind() == reflect.Ptr { ... v = v.Elem() }`
RECURSIVE Deref(_, _)
Deref(t, v) ==
    IF t.kind = "ptr"
    THEN IF IsNil(v) THEN [isNil |-> TRUE, t |-> t, v |-> v] ELSE Deref(t.elem, v.val[1])
    ELSE [isNil |-> FALSE, t |-> t, v |-> v]

RECURSIVE BaseType(_)
BaseType(t) == IF t.kind = "ptr" THEN BaseType(t.elem) ELSE t

\* fmt.Sprintf("%v", x) for the kinds writePrimitiveValue has no case for
RECURSIVE FormatV(_, _)
FormatV(t, v) ==
    CASE t.kind = "string" -> v.val
      [] t.kind = "int" -> FormatInt(v.val)
      [] t.kind = "float64" -> FormatFloat(v.val)
      [] t.kind = "bool" -> FormatBool(v.val)
      [] t.kind \in {"func", "chan"} -> v.val
      [] t.kind = "ptr" -> IF IsNil(v) THEN <<"<", "n", "i", "l", ">">> ELSE <<"0", "x", "c", "0">>
      [] t.kind = "slice" ->
            <<"[">> \o Join([i \in 1..Len(v.val.elems) |-> FormatV(t.elem, v.val.elems[i])], <<SP>>) \o <<"]">>
      [] t.kind = "struct" ->
            <<"{">> \o Join([i \in 1..Len(t.fields) |-> FormatV(t.fields[i].type, v.val[i])], <<SP>>) \o <<"}">>

quoteString(s) == <<QUOTE>> \o EscapeQuotes(s) \o <<QUOTE>>

writePrimitiveValue(t, v) ==
    LET d == Deref(t, v)
    IN IF d.isNil THEN <<"n", "u", "l", "l">>
       ELSE CASE d.t.kind = "string" ->
                    IF ContainsAny(d.v.val, QuoteTriggers) THEN quoteString(d.v.val) ELSE d.v.val
              [] d.t.kind = "int" -> FormatInt(d.v.val)
              [] d.t.kind = "float64" -> FormatFloat(d.v.val)
              [] d.t.kind = "bool" -> FormatBool(d.v.val)
              [] OTHER -> FormatV(d.t, d.v)

encodePrimitive(opts, t, v, depth, key) ==
    Wrote(writeIndent(opts, depth)
          \o (IF key # <<>> THEN key \o <<":", SP>> ELSE <<>>)
          \o writePrimitiveValue(t, v) \o <<NL>>)

\* the names of the fields a struct emits, in declaration order
EmittedFields(t) ==
    SelectSeq([i \in 1..Len(t.fields) |-> i],
              LAMBDA i : t.fields[i].exported /\ getFieldName(t.fields[i]) # DASH)

getStructFieldNames(t) ==
    LET idx == EmittedFields(t) IN [j \in 1..Len(idx) |-> getFieldName(t.fields[idx[j]])]

writeStructAsRow(opts, t, v) ==
    LET idx == EmittedFields(t)
    IN Join([j \in 1..Len(idx) |-> writePrimitiveValue(t.fields[idx[j]].type, v.val[idx[j]])],
            opts.Delimiter)

isUniformStructSlice(t, v) ==
    IF Len(v.val.elems) = 0 THEN FALSE
    ELSE LET d == Deref(t.elem, v.val.elems[1])
         IN IF d.isNil \/ d.t.kind # "struct" THEN FALSE
            ELSE \A i \in 1..Len(d.t.fields) :
                    d.t.fields[i].exported =>
                        d.t.fields[i].type.kind \notin {"struct", "slice", "array", "map"}

encodePrimitiveSlice(opts, t, v, depth, key) ==
    LET es == v.val.elems
    IN Wrote(writeIndent(opts, depth) \o key \o <<"[">> \o FormatInt(Len(es)) \o <<"]", ":", SP>>
             \o Join([i \in 1..Len(es) |-> writePrimitiveValue(t.elem, es[i])], opts.Delimiter)
             \o <<NL>>)

\* the row loop of encodeTabularSlice: a nil element makes elem.Elem() the
\* zero Value, on which writeStructAsRow's v.Type() panics
RECURSIVE tabularRowsFrom(_, _, _, _, _)
tabularRowsFrom(opts, t, v, depth, i) ==
    IF i > Len(v.val.elems) THEN Wrote(<<>>)
    ELSE LET d == Deref(t.elem, v.val.elems[i])
         IN IF d.isNil THEN [out |-> writeIndent(opts, depth + 1), st |-> "panic"]
            ELSE Then(Wrote(writeIndent(opts, depth + 1) \o writeStructAsRow(opts, d.t, d.v) \o <<NL>>),
                      tabularRowsFrom(opts, t, v, depth, i + 1))

encodeTabularSlice(opts, t, v, depth, key) ==
    LET first == Deref(t.elem, v.val.elems[1])
    IN IF Len(v.val.elems) = 0 \/ first.isNil THEN Wrote(<<>>)
       ELSE Then(Wrote(writeIndent(opts, depth) \o key \o <<"[">> \o FormatInt(Len(v.val.elems)) \o <<"]", "{">>
                       \o Join(getStructFieldNames(first.t), <<",">>) \o <<"}", ":", NL>>),
                 tabularRowsFrom(opts, t, v, depth, 1))

\* encodeListItem: the first emitted field follows the dash, the others
\* take a line each
encodeListItem(opts, t, v, depth) ==
    LET idx == EmittedFields(t)
        fieldLine(j) ==
            (IF j = 1 THEN <<>> ELSE writeIndent(opts, depth))
            \o getFieldName(t.fields[idx[j]]) \o <<":", SP>>
            \o writePrimitiveValue(t.fields[idx[j]].type, v.val[idx[j]]) \o <<NL>>
    IN Join([j \in 1..Len(idx) |-> fieldLine(j)], <<>>)

\* encodeListItemMap: the first entry follows the dash, the others take a
\* line each, in the order of MapKeys
encodeListItemMap(opts, t, v, depth) ==
    Join([j \in 1..Len(v.val.entries) |->
             (IF j = 1 THEN <<>> ELSE writeIndent(opts, depth))
             \o FormatV(t.key, v.val.entries[j][1]) \o <<":", SP>>
             \o writePrimitiveValue(t.elem, v.val.entries[j][2]) \o <<NL>>],
         <<>>)

\* the item loop of encodeListSlice.  On a nil element the inner loop
\* `for elem.Kind() == reflect.Ptr { if elem.IsNil() { write "null\n";
\* continue } ...}` continues itself: elem does not change, so it writes
\* "null\n" again without end.
RECURSIVE listItemsFrom(_, _, _, _, _)
listItemsFrom(opts, t, v, depth, i) ==
    IF i > Len(v.val.elems) THEN Wrote(<<>>)
    ELSE LET d == Deref(t.elem, v.val.elems[i])
             dash == writeIndent(opts, depth + 1) \o <<"-", SP>>
         IN IF d.isNil THEN [out |-> dash, st |-> "hang"]
            ELSE Then(Wrote(dash \o (CASE d.t.kind = "struct" -> encodeListItem(opts, d.t, d.v, depth + 2)
                                       [] d.t.kind = "map" -> encodeListItemMap(opts, d.t, d.v, depth + 2)
                                       [] OTHER -> writePrimitiveValue(d.t, d.v) \o <<NL>>)),
                      listItemsFrom(opts, t, v, depth, i + 1))

encodeListSlice(opts, t, v, depth, key) ==
    Then(Wrote(writeIndent(opts, depth) \o key \o <<"[">> \o FormatInt(Len(v.val.elems)) \o <<"]", ":", NL>>),
         listItemsFrom(opts, t, v, depth, 1))

encodeSlice(opts, t, v, depth, key) ==
    IF Len(v.val.elems) = 0
    THEN Wrote(IF key # <<>> THEN writeIndent(opts, depth) \o key \o <<"[", "0", "]", ":", NL>> ELSE <<>>)
    ELSE CASE BaseType(t.elem).kind = "struct" ->
                 IF opts.UseTabular /\ isUniformStructSlice(t, v)
                 THEN encodeTabularSlice(opts, t, v, depth, key)
                 ELSE encodeListSlice(opts, t, v, depth, key)
           [] BaseType(t.elem).kind = "map" -> encodeListSlice(opts, t, v, depth, key)
           [] OTHER -> encodePrimitiveSlice(opts, t, v, depth, key)

RECURSIVE encodeValue(_, _, _, _, _)
RECURSIVE encodeFieldsFrom(_, _, _, _, _)

\* the field loop of encodeStruct
encodeFieldsFrom(opts, t, v, depth, i) ==
    IF i > Len(t.fields) THEN Wrote(<<>>)
    ELSE IF ~t.fields[i].exported \/ getFieldName(t.fields[i]) = DASH
         THEN encodeFieldsFrom(opts, t, v, depth, i + 1)
    ELSE Then(encodeValue(opts, t.fields[i].type, v.val[i], depth, getFieldName(t.fields[i])),
              encodeFieldsFrom(opts, t, v, depth, i + 1))

encodeStruct(opts, t, v, depth, key) ==
    IF key # <<>>
    THEN Then(Wrote(writeIndent(opts, depth) \o key \o <<":", NL>>), encodeFieldsFrom(opts, t, v, depth + 1, 1))
    ELSE encodeFieldsFrom(opts, t, v, depth, 1)

\* the loop of encodeMap over keys := v.MapKeys()
RECURSIVE encodeKeysFrom(_, _, _, _, _)
encodeKeysFrom(opts, t, v, depth, i) ==
    IF i > Len(v.val.entries) THEN Wrote(<<>>)
    ELSE Then(encodeValue(opts, t.elem, v.val.entries[i][2], depth, FormatV(t.key, v.val.entries[i][1])),
              encodeKeysFrom(opts, t, v, depth, i + 1))

encodeMap(opts, t, v, depth, key) ==
    IF key # <<>>
    THEN Then(Wrote(writeIndent(opts, depth) \o key \o <<":", NL>>), encodeKeysFrom(opts, t, v, depth + 1, 1))
    ELSE encodeKeysFrom(opts, t, v, depth, 1)

encodeValue(opts, t, v, depth, key) ==
    IF t.kind = "ptr"
    THEN IF IsNil(v)
         THEN Wrote(IF key # <<>> THEN writeIndent(opts, depth) \o key \o <<":", SP, "n", "u", "l", "l", NL>> ELSE <<>>)
         ELSE encodeValue(opts, t.elem, v.val[1], depth, key)
    ELSE CASE t.kind = "struct" -> encodeStruct(opts, t, v, depth, key)
           [] t.kind = "map" -> encodeMap(opts, t, v, depth, key)
           [] t.kind = "slice" -> encodeSlice(opts, t, v, depth, key)
           [] OTHER -> encodePrimitive(opts, t, v, depth, key)

\* encoder.encode
encode(opts, t, v) == encodeValue(opts, t, v, 0, <<>>)

(***************************************************************************)
(* The decoder (decoder.go).  The decoder holds the lines of the input and *)
(* a cursor, pos, the number of lines consumed.  A decoding step yields    *)
(* the cursor, the destination as it stands (the code assigns in place, so *)
(* a failed step keeps what it had assigned) and the error: "" for nil,    *)
(* "strconv" for a strconv error, "unsupported" and "tabular" for the two  *)
(* fmt.Errorf errors, "panic" for a reflect panic.                         *)
(***************************************************************************)
Ret(pos, v, err) == [pos |-> pos, v |-> v, err |-> err]

IsBlankOrComment(line) == TrimSpace(line) = <<>> \/ HasPrefix(TrimSpace(line), <<"#">>)

hasMore(lines, pos) == \E i \in (pos + 1)..Len(lines) : ~IsBlankOrComment(lines[i])

RECURSIVE skipEmptyLines(_, _)
skipEmptyLines(lines, pos) ==
    IF pos < Len(lines) /\ IsBlankOrComment(lines[pos + 1]) THEN skipEmptyLines(lines, pos + 1) ELSE pos

currentLine(lines, pos) == IF pos >= Len(lines) THEN <<>> ELSE lines[pos + 1]

RECURSIVE getIndent(_)
getIndent(line) == IF Len(line) > 0 /\ line[1] = SP THEN 1 + getIndent(Tail(line)) ELSE 0

\* the indentation decodeStruct and decodeArrayField add for a nested block
NestedIndent == 2

\* the quoted-string step of setPrimitiveValue
unquote(s) ==
    IF Len(s) >= 2 /\ s[1] = QUOTE /\ s[Len(s)] = QUOTE
    THEN UnescapeQuotes(SubSeq(s, 2, Len(s) - 1))
    ELSE s

Set(v) == [v |-> v, err |-> ""]
Fail(v, err) == [v |-> v, err |-> err]

setInt(v, parsed) == IF parsed.ok THEN Set(IntV(parsed.val)) ELSE Fail(v, "strconv")
setFloat(v, parsed) == IF parsed.ok THEN Set([kind |-> "float64", val |-> parsed.val]) ELSE Fail(v, "strconv")
setBool(v, parsed) == IF parsed.ok THEN Set(BoolV(parsed.val)) ELSE Fail(v, "strconv")
\* v.Set(reflect.New(...)) comes before the recursive call and stays
setPointee(r) == [v |-> PtrTo(r.v), err |-> r.err]

\* a variant that tries the boolean before the numbers
inferBoolFirst(s) ==
    IF s = <<"n", "u", "l", "l">> THEN Set(NilInterface)
    ELSE IF ParseBool(s).ok THEN Set(InterfaceOf(BoolV(ParseBool(s).val)))
    ELSE IF ParseInt(s).ok THEN Set(InterfaceOf(Int64V(ParseInt(s).val)))
    ELSE IF ParseFloat(s).ok THEN Set(InterfaceOf([kind |-> "float64", val |-> ParseFloat(s).val]))
    ELSE Set(InterfaceOf(StrV(s)))

\* the reflect.Interface case of setPrimitiveValue
inferScalar(s) ==
    IF s = <<"n", "u", "l", "l">> THEN Set(NilInterface)
    ELSE IF ParseInt(s).ok THEN Set(InterfaceOf(Int64V(ParseInt(s).val)))
    ELSE IF ParseFloat(s).ok THEN Set(InterfaceOf([kind |-> "float64", val |-> ParseFloat(s).val]))
    ELSE IF ParseBool(s).ok THEN Set(InterfaceOf(BoolV(ParseBool(s).val)))
    ELSE Set(InterfaceOf(StrV(s)))

RECURSIVE setPrimitiveValue(_, _, _)

\* the switch of setPrimitiveValue on v.Kind(), s trimmed and unquoted
setByKind(t, v, s) ==
    CASE t.kind = "string" -> Set(StrV(s))
      [] t.kind = "int" -> setInt(v, ParseInt(s))
      [] t.kind = "float64" -> setFloat(v, ParseFloat(s))
      [] t.kind = "bool" -> setBool(v, ParseBool(s))
      [] t.kind = "interface" -> inferScalar(s)
      [] t.kind = "ptr" -> setPointee(setPrimitiveValue(t.elem, IF IsNil(v) THEN Zero(t.elem) ELSE v.val[1], s))
      [] OTHER -> Fail(v, "unsupported")

setPrimitiveValue(t, v, text) == setByKind(t, v, unquote(TrimSpace(text)))

\* setPrimitiveValue at a cursor position
Prim(pos, r) == Ret(pos, r.v, r.err)

\* the last index i with fieldMap[name] = i, 0 when the map has no such key;
\* decodeStruct and decodeStructFromListItem leave "-" out of the map,
\* decodeTabularArray does not
FieldIndex(t, name, skipDash) ==
    LET hits == {i \in 1..Len(t.fields) :
                    /\ t.fields[i].exported
                    /\ getFieldName(t.fields[i]) = name
                    /\ (skipDash => name # DASH)}
    IN IF hits = {} THEN 0 ELSE CHOOSE i \in hits : \A j \in hits : j <= i

\* the number of digits of key after position i
DigitRun(key, i) ==
    CHOOSE n \in 0..Len(key) :
        /\ \A j \in (i + 1)..(i + n) : j <= Len(key) /\ key[j] \in DigitSet
        /\ (i + n + 1 > Len(key) \/ key[i + n + 1] \notin DigitSet)

\* where "]" stands if (?:[,\t|])?\] matches at k, else 0
BracketEnd(key, k) ==
    IF k <= Len(key) /\ key[k] = "]" THEN k
    ELSE IF k + 1 <= Len(key) /\ key[k] \in {",", TAB, "|"} /\ key[k + 1] = "]" THEN k + 1
    ELSE 0

\* the end of the match of \[(\d+)(?:[,\t|])?\] with its "[" at i, 0 if none
DeclEndAfter(key, i, nd) == IF nd = 0 THEN 0 ELSE BracketEnd(key, i + nd + 1)
DeclEnd(key, i) == IF i > Len(key) \/ key[i] # "[" THEN 0 ELSE DeclEndAfter(key, i, DigitRun(key, i))

\* the text of (?:\{([^}]+)\})? matched at the head of rest, "" if none
ColumnsText(rest, close) ==
    IF Len(rest) > 0 /\ rest[1] = "{" /\ close > 2 THEN SubSeq(rest, 2, close - 1) ELSE <<>>

TrimAll(names) == [j \in 1..Len(names) |-> TrimSpace(names[j])]

FieldNamesOf(cols) == IF cols = <<>> THEN <<>> ELSE TrimAll(Split(cols, ","))

ColumnsOf(rest) == FieldNamesOf(ColumnsText(rest, IndexOf(rest, "}")))

DeclAt(key, i, e) ==
    [len |-> DigitsVal(SubSeq(key, i + 1, i + DigitRun(key, i))),
     fieldNames |-> ColumnsOf(SubSeq(key, e + 1, Len(key)))]

Least(S) == CHOOSE a \in S : \A b \in S : a <= b

DeclFrom(key, starts) ==
    IF starts = {} THEN [len |-> -1, fieldNames |-> <<>>]
    ELSE DeclAt(key, Least(starts), DeclEnd(key, Least(starts)))

\* parseArrayDeclaration: the regexp ^(.+?)\[(\d+)(?:[,\t|])?\](?:\{([^}]+)\})?
\* matches at the first "[", after at least one character, that a length
\* and "]" follow.  len = -1 when the key does not match.
parseArrayDeclaration(key) == DeclFrom(key, {i \in 2..Len(key) : DeclEnd(key, i) > 0})

KeyBefore(key, starts) == IF starts = {} THEN key ELSE SubSeq(key, 1, Least(starts) - 1)

\* extractKeyFromArray: the regexp ^(.+?)\[
extractKeyFromArray(key) == KeyBefore(key, {i \in 2..Len(key) : key[i] = "["})

\* the delimiter decodeInlineArray and decodeTabularArray split on
splitValues(text) ==
    IF Contains(text, TAB) THEN Split(text, TAB)
    ELSE IF Contains(text, "|") THEN Split(text, "|")
    ELSE Split(text, ",")

\* the element loop of decodeInlineArray
RECURSIVE inlineFrom(_, _, _, _)

inlineAppend(elemType, parts, i, acc, r) ==
    IF r.err # "" THEN Fail(SliceV(acc), r.err) ELSE inlineFrom(elemType, parts, i + 1, Append(acc, r.v))

inlineFrom(elemType, parts, i, acc) ==
    IF i > Len(parts) THEN Set(SliceV(acc))
    ELSE IF TrimSpace(parts[i]) = <<>> THEN inlineFrom(elemType, parts, i + 1, acc)
    ELSE inlineAppend(elemType, parts, i, acc, setPrimitiveValue(elemType, Zero(elemType), TrimSpace(parts[i])))

\* v.Set(slice) only when no element failed
KeepOnError(v, r) == IF r.err # "" THEN Fail(v, r.err) ELSE r

\* v.Type().Elem() and reflect.MakeSlice(v.Type(), ...) panic unless v is a slice
decodeInlineArray(t, v, value) ==
    IF t.kind # "slice" THEN Fail(v, "panic")
    ELSE KeepOnError(v, inlineFrom(t.elem, splitValues(value), 1, <<>>))

\* the column loop of decodeTabularArray, for one row
RECURSIVE rowFieldsFrom(_, _, _, _, _)

rowAssigned(elemType, elem, fieldNames, values, j, idx, r) ==
    IF r.err # "" THEN Fail(elem, r.err)
    ELSE rowFieldsFrom(elemType, [elem EXCEPT !.val[idx] = r.v], fieldNames, values, j + 1)

rowField(elemType, elem, fieldNames, values, j, idx) ==
    IF idx = 0 THEN rowFieldsFrom(elemType, elem, fieldNames, values, j + 1)
    ELSE rowAssigned(elemType, elem, fieldNames, values, j, idx,
                     setPrimitiveValue(elemType.fields[idx].type, elem.val[idx], TrimSpace(values[j])))

\* a variant that takes the j-th column for the j-th field
columnFieldByPosition(elemType, fieldNames, j) == IF j <= Len(elemType.fields) THEN j ELSE 0

\* fieldMap[fieldName] for the j-th column of the header
columnField(elemType, fieldNames, j) == FieldIndex(elemType, fieldNames[j], FALSE)

rowFieldsFrom(elemType, elem, fieldNames, values, j) ==
    IF j > Len(fieldNames) THEN Set(elem)
    ELSE IF j > Len(values) THEN rowFieldsFrom(elemType, elem, fieldNames, values, j + 1)
    ELSE rowField(elemType, elem, fieldNames, values, j, columnField(elemType, fieldNames, j))

\* the row loop of decodeTabularArray
RECURSIVE tabularFrom(_, _, _, _, _, _, _)

tabularAppend(lines, p, t, length, fieldNames, i, acc, r) ==
    IF r.err # "" THEN Ret(p + 1, SliceV(acc), r.err)
    ELSE tabularFrom(lines, p + 1, t, length, fieldNames, i + 1, Append(acc, r.v))

tabularRow(lines, p, t, length, fieldNames, i, acc) ==
    tabularAppend(lines, p, t, length, fieldNames, i, acc,
                  rowFieldsFrom(t.elem, Zero(t.elem), fieldNames,
                                splitValues(TrimSpace(currentLine(lines, p))), 1))

tabularFrom(lines, pos, t, length, fieldNames, i, acc) ==
    IF i >= length \/ ~hasMore(lines, pos) THEN Ret(pos, SliceV(acc), "")
    ELSE tabularRow(lines, skipEmptyLines(lines, pos), t, length, fieldNames, i, acc)

\* v.Set(slice) only when no row failed
KeepAt(v, r) == IF r.err # "" THEN Ret(r.pos, v, r.err) ELSE r

decodeTabularArray(lines, pos, t, v, length, fieldNames) ==
    IF t.kind \notin {"slice", "ptr", "chan"} THEN Ret(pos, v, "panic")
    ELSE IF t.elem.kind # "struct" THEN Ret(pos, v, "tabular")
    ELSE IF t.kind # "slice" THEN Ret(pos, v, "panic")
    ELSE KeepAt(v, tabularFrom(lines, pos, t, length, fieldNames, 0, <<>>))

\* the loop of decodeStructFromListItem over the lines after the dash line
RECURSIVE listItemFieldsLoop(_, _, _, _, _)

listItemAssigned(lines, p, t, v, expectedIndent, idx, r) ==
    IF r.err # "" THEN Ret(p, [v EXCEPT !.val[idx] = r.v], r.err)
    ELSE listItemFieldsLoop(lines, p + 1, t, [v EXCEPT !.val[idx] = r.v], expectedIndent)

listItemPair(lines, p, t, v, expectedIndent, parts, idx) ==
    IF idx = 0 THEN listItemFieldsLoop(lines, p + 1, t, v, expectedIndent)
    ELSE listItemAssigned(lines, p, t, v, expectedIndent, idx,
                          setPrimitiveValue(t.fields[idx].type, v.val[idx], TrimSpace(parts[2])))

listItemParts(lines, p, t, v, expectedIndent, parts) ==
    listItemPair(lines, p, t, v, expectedIndent, parts, FieldIndex(t, TrimSpace(parts[1]), TRUE))

listItemLine(lines, p, t, v, expectedIndent) ==
    IF getIndent(currentLine(lines, p)) < expectedIndent \/ ~Contains(TrimSpace(currentLine(lines, p)), ":")
    THEN Ret(p, v, "")
    ELSE listItemParts(lines, p, t, v, expectedIndent, SplitN2(TrimSpace(currentLine(lines, p)), ":"))

listItemFieldsLoop(lines, pos, t, v, expectedIndent) ==
    IF ~hasMore(lines, pos) THEN Ret(pos, v, "")
    ELSE listItemLine(lines, skipEmptyLines(lines, pos), t, v, expectedIndent)

\* the first line of decodeStructFromListItem, then the loop
firstAssigned(lines, pos, t, v, expectedIndent, idx, r) ==
    IF r.err # "" THEN Ret(pos, [v EXCEPT !.val[idx] = r.v], r.err)
    ELSE listItemFieldsLoop(lines, pos, t, [v EXCEPT !.val[idx] = r.v], expectedIndent)

firstPair(lines, pos, t, v, expectedIndent, parts, idx) ==
    IF idx = 0 THEN listItemFieldsLoop(lines, pos, t, v, expectedIndent)
    ELSE firstAssigned(lines, pos, t, v, expectedIndent, idx,
                       setPrimitiveValue(t.fields[idx].type, v.val[idx], TrimSpace(parts[2])))

firstParts(lines, pos, t, v, expectedIndent, parts) ==
    firstPair(lines, pos, t, v, expectedIndent, parts, FieldIndex(t, TrimSpace(parts[1]), TRUE))

decodeStructFromListItem(lines, pos, t, v, firstLine, expectedIndent) ==
    IF Contains(firstLine, ":") THEN firstParts(lines, pos, t, v, expectedIndent, SplitN2(firstLine, ":"))
    ELSE listItemFieldsLoop(lines, pos, t, v, expectedIndent)

\* the item loop of decodeSlice
RECURSIVE sliceLoop(_, _, _, _, _)

sliceAppend(lines, t, expectedIndent, acc, r) ==
    IF r.err # "" THEN Ret(r.pos, SliceV(acc), r.err)
    ELSE sliceLoop(lines, r.pos, t, expectedIndent, Append(acc, r.v))

sliceItem(lines, p, t, expectedIndent, acc, indent, itemContent) ==
    sliceAppend(lines, t, expectedIndent, acc,
                IF t.elem.kind = "struct"
                THEN IF Contains(itemContent, ":")
                     THEN decodeStructFromListItem(lines, p + 1, t.elem, Zero(t.elem), itemContent, indent + 2)
                     ELSE Ret(p + 1, Zero(t.elem), "")
                ELSE Prim(p + 1, setPrimitiveValue(t.elem, Zero(t.elem), itemContent)))

sliceLine(lines, p, t, expectedIndent, acc, indent, trimmed) ==
    IF (expectedIndent > 0 /\ indent < expectedIndent) \/ ~HasPrefix(trimmed, <<"-", SP>>)
    THEN Ret(p, SliceV(acc), "")
    ELSE sliceItem(lines, p, t, expectedIndent, acc, indent, TrimSpace(SubSeq(trimmed, 3, Len(trimmed))))

sliceAt(lines, p, t, expectedIndent, acc) ==
    sliceLine(lines, p, t, expectedIndent, acc, getIndent(currentLine(lines, p)), TrimSpace(currentLine(lines, p)))

sliceLoop(lines, pos, t, expectedIndent, acc) ==
    IF ~hasMore(lines, pos) THEN Ret(pos, SliceV(acc), "")
    ELSE sliceAt(lines, skipEmptyLines(lines, pos), t, expectedIndent, acc)

decodeSlice(lines, pos, t, v, expectedIndent) == KeepAt(v, sliceLoop(lines, pos, t, expectedIndent, <<>>))

RECURSIVE decodeValue(_, _, _, _, _)
RECURSIVE decodeStructLoop(_, _, _, _, _)
RECURSIVE decodeMapLoop(_, _, _, _, _)

\* v.SetMapIndex(key, elem)
SetMapIndex(v, key, elem) == MapV({e \in v.val.entries : e[1] # key} \cup {<<key, elem>>})

\* the line loop of decodeMap, one line at a time
mapAssigned(lines, t, v, expectedIndent, key, r) ==
    IF r.err # "" THEN Ret(r.pos, v, r.err)
    ELSE decodeMapLoop(lines, r.pos, t, SetMapIndex(v, key, r.v), expectedIndent)

mapElem(lines, p, t, v, expectedIndent, indent, k, valueStr) ==
    IF k.err # "" THEN Ret(p, v, k.err)
    ELSE mapAssigned(lines, t, v, expectedIndent, k.v,
            IF valueStr = <<>>
            THEN decodeValue(lines, p + 1, t.elem, Zero(t.elem), indent + 2)
            ELSE Prim(p + 1, setPrimitiveValue(t.elem, Zero(t.elem), valueStr)))

mapPair(lines, p, t, v, expectedIndent, indent, parts) ==
    mapElem(lines, p, t, v, expectedIndent, indent,
            setPrimitiveValue(t.key, Zero(t.key), TrimSpace(parts[1])), TrimSpace(parts[2]))

mapLine(lines, p, t, v, expectedIndent, indent, trimmed) ==
    IF expectedIndent > 0 /\ indent < expectedIndent THEN Ret(p, v, "")
    ELSE IF ~Contains(trimmed, ":") THEN decodeMapLoop(lines, p + 1, t, v, expectedIndent)
    ELSE mapPair(lines, p, t, v, expectedIndent, indent, SplitN2(trimmed, ":"))

mapAt(lines, p, t, v, expectedIndent) ==
    mapLine(lines, p, t, v, expectedIndent, getIndent(currentLine(lines, p)), TrimSpace(currentLine(lines, p)))

decodeMapLoop(lines, pos, t, v, expectedIndent) ==
    IF ~hasMore(lines, pos) THEN Ret(pos, v, "")
    ELSE mapAt(lines, skipEmptyLines(lines, pos), t, v, expectedIndent)

\* decodeMap: a nil map is made first, in place
decodeMap(lines, pos, t, v, expectedIndent) ==
    decodeMapLoop(lines, pos, t, IF v.val.isNil THEN MapV({}) ELSE v, expectedIndent)

decodeArrayField(lines, pos, t, v, length, fieldNames, value, indent) ==
    IF Len(fieldNames) > 0 THEN decodeTabularArray(lines, pos, t, v, length, fieldNames)
    ELSE IF value # <<>> THEN Prim(pos, decodeInlineArray(t, v, value))
    ELSE decodeValue(lines, pos, t, v, indent + NestedIndent)

\* the line loop of decodeStruct, one line at a time: the field's value is
\* assigned in place, then the loop goes on or the error is returned
structAssigned(lines, t, v, expectedIndent, idx, r) ==
    IF r.err # "" THEN Ret(r.pos, [v EXCEPT !.val[idx] = r.v], r.err)
    ELSE decodeStructLoop(lines, r.pos, t, [v EXCEPT !.val[idx] = r.v], expectedIndent)

structField(lines, p, t, v, expectedIndent, indent, value, decl, idx) ==
    IF idx = 0 THEN decodeStructLoop(lines, p + 1, t, v, expectedIndent)
    ELSE structAssigned(lines, t, v, expectedIndent, idx,
            IF decl.len >= 0
            THEN decodeArrayField(lines, p + 1, t.fields[idx].type, v.val[idx], decl.len, decl.fieldNames, value, indent)
            ELSE IF value = <<>>
                 THEN decodeValue(lines, p + 1, t.fields[idx].type, v.val[idx], indent + NestedIndent)
            ELSE Prim(p + 1, setPrimitiveValue(t.fields[idx].type, v.val[idx], value)))

structKey(lines, p, t, v, expectedIndent, indent, rawKey, value, decl) ==
    structField(lines, p, t, v, expectedIndent, indent, value, decl,
                FieldIndex(t, IF decl.len >= 0 THEN extractKeyFromArray(rawKey) ELSE rawKey, TRUE))

structPair(lines, p, t, v, expectedIndent, indent, parts) ==
    structKey(lines, p, t, v, expectedIndent, indent, TrimSpace(parts[1]), TrimSpace(parts[2]),
              parseArrayDeclaration(TrimSpace(parts[1])))

structLine(lines, p, t, v, expectedIndent, indent, trimmed) ==
    IF expectedIndent > 0 /\ indent < expectedIndent THEN Ret(p, v, "")
    ELSE IF ~Contains(trimmed, ":") THEN decodeStructLoop(lines, p + 1, t, v, expectedIndent)
    ELSE structPair(lines, p, t, v, expectedIndent, indent, SplitN2(trimmed, ":"))

structAt(lines, p, t, v, expectedIndent) ==
    structLine(lines, p, t, v, expectedIndent, getIndent(currentLine(lines, p)), TrimSpace(currentLine(lines, p)))

decodeStructLoop(lines, pos, t, v, expectedIndent) ==
    IF ~hasMore(lines, pos) THEN Ret(pos, v, "")
    ELSE structAt(lines, skipEmptyLines(lines, pos), t, v, expectedIndent)

decodeStruct(lines, pos, t, v, expectedIndent) == decodeStructLoop(lines, pos, t, v, expectedIndent)

\* the reflect.Interface case of decodeValue: a map[string]any is decoded
\* and set when decodeMap returned no error
mapInInterface(v, r) == IF r.err # "" THEN Ret(r.pos, v, r.err) ELSE Ret(r.pos, InterfaceOf(r.v), "")

\* the reflect.Ptr case of decodeValue: v.Set(reflect.New(...)) if nil, then the pointee
pointee(r) == Ret(r.pos, PtrTo(r.v), r.err)

decodeKind(lines, p, t, v, expectedIndent) ==
    IF ~hasMore(lines, p) THEN Ret(p, v, "")
    ELSE CASE t.kind = "struct" -> decodeStruct(lines, p, t, v, expectedIndent)
           [] t.kind = "map" -> decodeMap(lines, p, t, v, expectedIndent)
           [] t.kind = "interface" ->
                 mapInInterface(v, decodeMap(lines, p, MapT(StringT, InterfaceT), MapV({}), expectedIndent))
           [] t.kind = "slice" -> decodeSlice(lines, p, t, v, expectedIndent)
           [] t.kind = "ptr" ->
                 pointee(decodeValue(lines, p, t.elem, IF IsNil(v) THEN Zero(t.elem) ELSE v.val[1], expectedIndent))
           [] OTHER -> Prim(p + 1, setPrimitiveValue(t, v, TrimSpace(currentLine(lines, p))))

decodeValue(lines, pos, t, v, expectedIndent) ==
    decodeKind(lines, skipEmptyLines(lines, pos), t, v, expectedIndent)

\* newDecoder and decoder.decode, for a destination that is a non-nil
\* pointer to a value v of type t
decode(input, t, v) == decodeValue(Split(input, NL), 0, t, v, 0)

(***************************************************************************)
(* Valid (toon.go).                                                        *)
(***************************************************************************)
\* a variant that takes no line for a comment
isBlankOnly(trimmed) == trimmed = <<>>

\* the test `trimmed == "" || strings.HasPrefix(trimmed, "#")` of Valid
isBlankOrHash(trimmed) == trimmed = <<>> \/ HasPrefix(trimmed, <<"#">>)

\* the loop of Valid over the lines, from line i on
RECURSIVE validFrom(_, _)
validFrom(lines, i) ==
    IF i > Len(lines) THEN TRUE
    ELSE IF isBlankOrHash(TrimSpace(lines[i])) THEN validFrom(lines, i + 1)
    ELSE IF ~Contains(TrimSpace(lines[i]), ":") /\ ~Contains(TrimSpace(lines[i]), "[") THEN FALSE
    ELSE validFrom(lines, i + 1)

Valid(input) == validFrom(Split(input, NL), 1)

(***************************************************************************)
(* The calls.  A caller holds a value of some type and options, calls      *)
(* MarshalWithOptions, and hands the text to Unmarshal with a fresh        *)
(* destination of the same type.                                           *)
(*   pc     "value": before Marshal; "text": Marshal returned data;        *)
(*          "spin": Marshal is in the loop of encodeListSlice that has no  *)
(*          exit; "panic": the call panicked; "done": Unmarshal returned   *)
(*   opts, typ, val   the options, the type and the value given to Marshal *)
(*   data   the bytes Marshal returned, the bytes Unmarshal reads          *)
(*   merr   the error Marshal returned ("" for nil)                        *)
(*   dst    the destination after Unmarshal, err its error ("" for nil)    *)
(*   spins  the turns the loop without exit has taken, counted up to       *)
(*          MaxSpin and then from 0 again                                  *)
(*   doc    the document a caller wrote by hand and passes to Unmarshal,   *)
(*          [kind |-> "none"] when the text comes from Marshal             *)
(*   valid  <<>> before the caller asks Valid about data, then <<b>> with   *)
(*          b what Valid returned                                          *)
(***************************************************************************)
VARIABLES pc, opts, typ, val, data, merr, dst, err, spins, doc, valid

vars == <<pc, opts, typ, val, data, merr, dst, err, spins, doc, valid>>

(***************************************************************************)
(* The values a caller passes                                              *)
(***************************************************************************)
\* bounds of the values a caller passes
MaxStrLen == 2
MaxElems == 2
MaxIndent == 3
MaxSpin == 2

StrChars == {"a", ",", "|", TAB, NL, QUOTE}

RECURSIVE StringsUpTo(_)
StringsUpTo(n) ==
    IF n = 0 THEN {<<>>}
    ELSE LET shorter == StringsUpTo(n - 1)
         IN shorter \cup {Append(s, c) : s \in {x \in shorter : Len(x) = n - 1}, c \in StrChars}

RECURSIVE SeqsUpTo(_, _)
SeqsUpTo(S, n) ==
    IF n = 0 THEN {<<>>}
    ELSE LET shorter == SeqsUpTo(S, n - 1)
         IN shorter \cup {Append(s, x) : s \in {y \in shorter : Len(y) = n - 1}, x \in S}

Delimiters == {DelimiterComma, DelimiterTab, DelimiterPipe}

Options(indent, delimiter, useTabular) == [Indent |-> indent, Delimiter |-> delimiter, UseTabular |-> useTabular]

T_id == <<"i", "d">>
T_name == <<"n", "a", "m", "e">>
T_km == <<"k", "m">>
T_sunny == <<"s", "u", "n", "n", "y">>
T_friends == <<"f", "r", "i", "e", "n", "d", "s">>
T_count == <<"c", "o", "u", "n", "t">>
T_users == <<"u", "s", "e", "r", "s">>
T_inner == <<"i", "n", "n", "e", "r">>
T_after == <<"a", "f", "t", "e", "r">>
T_a == <<"a">>
T_b == <<"b">>
T_f == <<"f">>

\* a flat record of the four scalar kinds (Hike of toon_test.go, shortened)
HikeT ==
    StructT(<<Field(<<"I", "D">>, T_id, IntT), Field(<<"N", "a", "m", "e">>, T_name, StringT),
              Field(<<"K", "m">>, T_km, FloatT), Field(<<"S", "u", "n", "n", "y">>, T_sunny, BoolT)>>)

\* a record with a sequence of strings, before and after another field
FriendsT == StructT(<<Field(<<"F">>, T_friends, SliceT(StringT)), Field(<<"C">>, T_count, IntT)>>)
FriendsLastT == StructT(<<Field(<<"C">>, T_count, IntT), Field(<<"F">>, T_friends, SliceT(StringT))>>)

\* User of the README: a tagged field, an untagged one, an omitted one
UserT ==
    StructT(<<Field(<<"I", "D">>, T_id, IntT), Field(<<"N", "a", "m", "e">>, <<>>, StringT),
              Field(<<"S", "e", "c", "r", "e", "t">>, DASH, StringT)>>)
UsersT == StructT(<<Field(<<"U">>, T_users, SliceT(UserT)), Field(<<"C">>, T_count, IntT)>>)
UserPtrsT == StructT(<<Field(<<"U">>, T_users, SliceT(PtrT(UserT))), Field(<<"C">>, T_count, IntT)>>)

\* a record-valued field followed by a sibling, one and two levels deep
InnerT == StructT(<<Field(<<"A">>, T_a, IntT), Field(<<"B">>, T_b, StringT)>>)
OuterT == StructT(<<Field(<<"I">>, T_inner, InnerT), Field(<<"A">>, T_after, IntT)>>)
DeepT == StructT(<<Field(<<"U">>, T_users, OuterT), Field(<<"C">>, T_count, IntT)>>)

\* records with a field of a kind that has no text form
CallbackT == StructT(<<Field(<<"F">>, T_f, FuncT), Field(<<"C">>, T_count, IntT)>>)
SignalT == StructT(<<Field(<<"F">>, T_f, ChanT), Field(<<"C">>, T_count, IntT)>>)

ElemStrings == StringsUpTo(1) \cup {<<"a", ",">>, <<"b">>}

Scalars == {<<1, 75, TRUE>>, <<0, 0, FALSE>>, <<-12, -5, TRUE>>}

HikeCalls ==
    {Call(Options(DefaultIndent, d, TRUE), HikeT,
          StructV(<<IntV(x[1]), StrV(s), FloatV(x[2], 1), BoolV(x[3])>>)) :
        d \in Delimiters, s \in StringsUpTo(MaxStrLen), x \in Scalars}

StrVs(fs) == [i \in 1..Len(fs) |-> StrV(fs[i])]

FriendsCalls ==
    {Call(Options(DefaultIndent, d, TRUE), FriendsT, StructV(<<SliceV(StrVs(fs)), IntV(3)>>)) :
        d \in Delimiters, fs \in SeqsUpTo(ElemStrings, MaxElems)}
    \cup
    {Call(Options(DefaultIndent, DelimiterComma, TRUE), FriendsLastT, StructV(<<IntV(3), SliceV(StrVs(fs))>>)) :
        fs \in SeqsUpTo(ElemStrings, MaxElems)}

Users ==
    {StructV(<<IntV(1), StrV(s), StrV(<<"a">>)>>) : s \in ElemStrings}
    \cup {StructV(<<IntV(20), StrV(<<"a">>), StrV(<<>>)>>)}

UsersCalls ==
    {Call(Options(DefaultIndent, d, tab), UsersT, StructV(<<SliceV(us), IntV(3)>>)) :
        d \in Delimiters, tab \in BOOLEAN, us \in SeqsUpTo(Users, MaxElems)}

UserPtrs == {NilPtr} \cup {PtrTo(StructV(<<IntV(1), StrV(s), StrV(<<"a">>)>>)) : s \in {<<"a">>, <<"b">>}}

UserPtrsCalls ==
    {Call(Options(DefaultIndent, DelimiterComma, tab), UserPtrsT, StructV(<<SliceV(us), IntV(3)>>)) :
        tab \in BOOLEAN, us \in SeqsUpTo(UserPtrs, MaxElems)}

Inners == {StructV(<<IntV(n), StrV(s)>>) : n \in {0, 7}, s \in {<<"a">>, <<"b">>}}

NestedCalls ==
    {Call(Options(w, DelimiterComma, TRUE), OuterT, StructV(<<in, IntV(n)>>)) :
        w \in 0..MaxIndent, in \in Inners, n \in {0, 5}}
    \cup
    {Call(Options(w, DelimiterComma, TRUE), DeepT, StructV(<<StructV(<<in, IntV(n)>>), IntV(3)>>)) :
        w \in 0..MaxIndent, in \in Inners, n \in {0, 5}}

\* what %v prints for a nil and for a non-nil func or chan
Shown == {<<"<", "n", "i", "l", ">">>, <<"0", "x", "4", "7">>}

UnclassifiedCalls ==
    {Call(DefaultMarshalOptions, CallbackT, StructV(<<FuncV(x), IntV(3)>>)) : x \in Shown}
    \cup {Call(DefaultMarshalOptions, SignalT, StructV(<<ChanV(x), IntV(3)>>)) : x \in Shown}
    \cup {Call(DefaultMarshalOptions, FuncT, FuncV(x)) : x \in Shown}

T_m == <<"m">>
T_items == <<"i", "t", "e", "m", "s">>

\* a mapping, a record that holds one, and a record that holds a sequence of them
ScoreMapT == MapT(StringT, IntT)
ScoresT == StructT(<<Field(<<"S", "c", "o", "r", "e", "s">>, T_m, ScoreMapT), Field(<<"C", "o", "u", "n", "t">>, T_count, IntT)>>)
ItemsT == StructT(<<Field(<<"I", "t", "e", "m", "s">>, T_items, SliceT(ScoreMapT))>>)

ScoreMaps ==
    {NilMap, MapV({}), MapV({<<StrV(T_a), IntV(1)>>}),
     MapV({<<StrV(T_a), IntV(1)>>, <<StrV(T_b), IntV(2)>>}),
     MapV({<<StrV(T_a), IntV(2)>>, <<StrV(T_b), IntV(2)>>})}

MapCalls ==
    {Call(DefaultMarshalOptions, ScoreMapT, m) : m \in ScoreMaps}
    \cup {Call(DefaultMarshalOptions, ScoresT, StructV(<<m, IntV(3)>>)) : m \in ScoreMaps}
    \cup {Call(DefaultMarshalOptions, ItemsT, StructV(<<SliceV(<<m>>)>>)) : m \in ScoreMaps}

\* a sequence of records with a field that holds an optional record
BoxT == StructT(<<Field(<<"I", "D">>, T_id, IntT), Field(<<"I", "n">>, T_inner, PtrT(InnerT))>>)
BoxesT == StructT(<<Field(<<"U">>, T_users, SliceT(BoxT))>>)

Boxes == {StructV(<<IntV(1), in>>) : in \in {NilPtr, PtrTo(StructV(<<IntV(7), StrV(<<"a">>)>>))}}

BoxCalls ==
    {Call(Options(DefaultIndent, DelimiterComma, tab), BoxesT, StructV(<<SliceV(bs)>>)) :
        tab \in BOOLEAN, bs \in SeqsUpTo(Boxes, MaxElems)}

\* records with one optional field, of each scalar kind
OptionalT(t) == StructT(<<Field(<<"N", "a", "m", "e">>, T_name, PtrT(t)), Field(<<"C">>, T_count, IntT)>>)

OptionalTypes == {OptionalT(t) : t \in {StringT, IntT, FloatT, BoolT}}

OptionalCalls ==
    {Call(DefaultMarshalOptions, t, StructV(<<p, IntV(3)>>)) :
        t \in OptionalTypes, p \in {NilPtr}}
    \cup {Call(DefaultMarshalOptions, t, StructV(<<PtrTo(Zero(t.fields[1].type.elem)), IntV(n)>>)) :
        t \in OptionalTypes, n \in {0, 3}}

Calls ==
    HikeCalls \cup FriendsCalls \cup UsersCalls \cup UserPtrsCalls \cup NestedCalls \cup UnclassifiedCalls
    \cup MapCalls \cup BoxCalls \cup OptionalCalls

\* bound of the rows of a hand-written tabular block
MaxRows == 2

T_zz == <<"z", "z">>

\* header columns: the names of User and one name User does not have, each at
\* most once, in every order
ColumnNames == {T_id, T_name, T_zz}

ColumnOrders == {cs \in SeqsUpTo(ColumnNames, 3) : Len(cs) > 0 /\ \A i, j \in 1..Len(cs) : cs[i] = cs[j] => i = j}

\* a row before it is laid out: what it holds for each column name
Rows == [id : {1, 20}, name : {<<"a">>, <<"b">>}, zz : {<<"x">>}]

RowSeqs == {rs \in SeqsUpTo(Rows, MaxRows) : Len(rs) > 0}

Cell(row, c) == IF c = T_id THEN FormatInt(row.id) ELSE IF c = T_name THEN row.name ELSE row.zz

RowLine(row, cols, d) == <<SP, SP>> \o Join([j \in 1..Len(cols) |-> Cell(row, cols[j])], d) \o <<NL>>

RECURSIVE RowLines(_, _, _)
RowLines(rows, cols, d) == IF rows = <<>> THEN <<>> ELSE RowLine(rows[1], cols, d) \o RowLines(Tail(rows), cols, d)

CountLine == T_count \o <<":", SP, "3", NL>>

\* users[N]{c1,...,ck}: and its N rows, then `count: 3` or the end of the text
TabularText(d) ==
    T_users \o <<"[">> \o FormatInt(Len(d.rows)) \o <<"]", "{">> \o Join(d.cols, <<",">>) \o <<"}", ":", NL>>
    \o RowLines(d.rows, d.cols, d.delim) \o (IF d.tail THEN CountLine ELSE <<>>)

TabularDocs == [kind : {"tabular"}, cols : ColumnOrders, rows : RowSeqs, delim : Delimiters, tail : BOOLEAN]

Line(key, text) == key \o <<":", SP>> \o text \o <<NL>>

HikeText(id, name, km, sunny) == Line(T_id, id) \o Line(T_name, name) \o Line(T_km, km) \o Line(T_sunny, sunny)

\* the four fields of the flat record, some with a text its kind cannot take
HikeDocs ==
    [kind : {"hike"}, id : {<<"5">>, <<"x">>}, km : {<<"1", ".", "5">>, <<"a", "b", "c">>},
     sunny : {<<"t", "r", "u", "e">>, <<"m", "a", "y", "b", "e">>}]

HikeDocText(d) == HikeText(d.id, <<"a">>, d.km, d.sunny)

\* users[n]{id,name}: and the one row 1,a
OneUserBlock(n) ==
    T_users \o <<"[">> \o n \o <<"]", "{">> \o T_id \o <<",">> \o T_name \o <<"}", ":", NL>>
    \o <<SP, SP, "1", ",", "a", NL>>

\* a key the record does not have, a header whose length is no number, or a
\* block one row short of its declared length; `count: 3` before or after
LenientDocs == [kind : {"lenient"}, what : {"unknown", "malformed", "short"}, countFirst : BOOLEAN]

LenientBody(d) ==
    CASE d.what = "unknown" -> Line(T_zz, <<"1">>) \o OneUserBlock(<<"1">>)
      [] d.what = "malformed" -> Line(T_users \o <<"[", "x", "]">>, <<"1", ",", "2">>) \o OneUserBlock(<<"1">>)
      [] d.what = "short" -> OneUserBlock(<<"2">>)

LenientText(d) == IF d.countFirst THEN CountLine \o LenientBody(d) ELSE LenientBody(d) \o CountLine

\* the name `-` as a column of a tabular header, as the key of a line of a
\* record and as the key of a line of a list item
DashDocs == [kind : {"dash"}, at : {"column", "key", "item"}]

DashType(d) == IF d.at = "key" THEN UserT ELSE UsersT

DashText(d) ==
    CASE d.at = "column" ->
            T_users \o <<"[", "1", "]", "{">> \o T_id \o <<",">> \o DASH \o <<"}", ":", NL>>
            \o <<SP, SP, "1", ",", "x", NL>>
      [] d.at = "key" -> Line(T_id, <<"1">>) \o Line(DASH, <<"x">>)
      [] d.at = "item" ->
            T_users \o <<"[", "1", "]", ":", NL>>
            \o <<SP, SP, "-", SP>> \o Line(T_id, <<"1">>)
            \o <<SP, SP, SP, SP>> \o Line(DASH, <<"x">>)

\* bound of the lines of a hand-written text given to Valid
MaxLines == 3

\* lines Valid passes over: blank, of white space only, comments
SkippedLines == {<<>>, <<SP, TAB>>, <<"#">>, <<SP, "#", "a">>}

\* lines with a colon or an opening bracket
MarkedLines == {<<"a", ":">>, <<SP, "[">>}

\* lines with neither, that are no comments
BareLines == {<<"a">>, <<"a", "#">>}

LineDocs == [kind : {"lines"}, lines : SeqsUpTo(SkippedLines \cup MarkedLines \cup BareLines, MaxLines)]

LinesText(d) == Join(d.lines, <<NL>>)

\* two items in each of the three forms under a header that declares n of
\* them, and a further field
DeclaredDocs == [kind : {"declared"}, form : {"inline", "tabular", "list"}, n : 1..2]

DeclaredType(d) == IF d.form = "tabular" THEN UsersT ELSE FriendsT

DeclaredText(d) ==
    (CASE d.form = "inline" ->
            T_friends \o <<"[">> \o FormatInt(d.n) \o <<"]", ":", SP, "a", ",", "b", NL>>
       [] d.form = "tabular" ->
            T_users \o <<"[">> \o FormatInt(d.n) \o <<"]", "{">> \o T_id \o <<",">> \o T_name \o <<"}", ":", NL>>
            \o <<SP, SP, "1", ",", "a", NL>> \o <<SP, SP, "2", ",", "b", NL>>
       [] d.form = "list" ->
            T_friends \o <<"[">> \o FormatInt(d.n) \o <<"]", ":", NL>>
            \o <<SP, SP, "-", SP, "a", NL>> \o <<SP, SP, "-", SP, "b", NL>>)
    \o CountLine

T_v == <<"v">>

\* a record with one field of type any
AnyT == StructT(<<Field(<<"V">>, T_v, InterfaceT)>>)

\* scalar texts and the value each stands for under the order null,
\* integer, float, boolean, string
AnyCases ==
    << <<<<"n", "u", "l", "l">>, NilInterface>>,
       <<<<"1">>, InterfaceOf(Int64V(1))>>,
       <<<<"0">>, InterfaceOf(Int64V(0))>>,
       <<<<"-", "1", "2">>, InterfaceOf(Int64V(-12))>>,
       <<<<"+", "5">>, InterfaceOf(Int64V(5))>>,
       <<<<"0", "7">>, InterfaceOf(Int64V(7))>>,
       <<<<"1", ".", "5">>, InterfaceOf(FloatV(15, 1))>>,
       <<<<"-", "0", ".", "2", "5">>, InterfaceOf(FloatV(-25, 2))>>,
       <<<<"7", ".">>, InterfaceOf(FloatV(7, 0))>>,
       <<<<"t">>, InterfaceOf(BoolV(TRUE))>>,
       <<<<"t", "r", "u", "e">>, InterfaceOf(BoolV(TRUE))>>,
       <<<<"F">>, InterfaceOf(BoolV(FALSE))>>,
       <<<<"f", "a", "l", "s", "e">>, InterfaceOf(BoolV(FALSE))>>,
       <<<<"N", "u", "l", "l">>, InterfaceOf(StrV(<<"N", "u", "l", "l">>))>>,
       <<<<"t", "r", "u">>, InterfaceOf(StrV(<<"t", "r", "u">>))>>,
       <<<<"1", "a">>, InterfaceOf(StrV(<<"1", "a">>))>>,
       <<<<"-">>, InterfaceOf(StrV(<<"-">>))>>,
       <<<<"1", SP, "2">>, InterfaceOf(StrV(<<"1", SP, "2">>))>>,
       <<<<"a", "b", "c">>, InterfaceOf(StrV(<<"a", "b", "c">>))>> >>

\* the line `v: <text>`, alone or before a comment line
AnyDocs == [kind : {"any"}, case : 1..Len(AnyCases), last : BOOLEAN]

AnyText(d) == Line(T_v, AnyCases[d.case][1]) \o (IF d.last THEN <<>> ELSE <<"#", NL>>)

\* bound of the lines in the block of an unknown key
MaxNested == 2

\* the lines a block under an unknown key may hold, before indentation
NestedLines == {Line(T_name, <<"x">>), Line(T_km, <<"2", ".", "5">>), Line(T_zz, <<"1">>), <<"x", NL>>}

\* `id: 5`, then the unknown key zz with its block of indented lines, then
\* `sunny: true`
BlockDocs == [kind : {"block"}, nested : SeqsUpTo(NestedLines, MaxNested)]

Indented(lines) == Join([i \in 1..Len(lines) |-> <<SP, SP>> \o lines[i]], <<>>)

BlockText(d) ==
    Line(T_id, <<"5">>) \o T_zz \o <<":", NL>> \o Indented(d.nested) \o Line(T_sunny, <<"t", "r", "u", "e">>)

\* the same document without the unknown key and its block
BlockRemoved == Line(T_id, <<"5">>) \o Line(T_sunny, <<"t", "r", "u", "e">>)

NoDoc == [kind |-> "none"]

\* a caller holds a value and options
InitValue ==
    /\ \E c \in Calls : opts = c.opts /\ typ = c.typ /\ val = c.val
    /\ pc = "value"
    /\ data = <<>>
    /\ doc = NoDoc

\* a caller holds a text and a fresh destination
InitText ==
    /\ \/ doc \in TabularDocs /\ typ = UsersT /\ data = TabularText(doc)
       \/ doc \in HikeDocs /\ typ = HikeT /\ data = HikeDocText(doc)
       \/ doc \in LenientDocs /\ typ = UsersT /\ data = LenientText(doc)
       \/ doc \in DashDocs /\ typ = DashType(doc) /\ data = DashText(doc)
       \/ doc \in LineDocs /\ typ = HikeT /\ data = LinesText(doc)
       \/ doc \in AnyDocs /\ typ = AnyT /\ data = AnyText(doc)
       \/ doc \in BlockDocs /\ typ = HikeT /\ data = BlockText(doc)
       \/ doc \in DeclaredDocs /\ typ = DeclaredType(doc) /\ data = DeclaredText(doc)
    /\ opts = DefaultMarshalOptions
    /\ val = Zero(typ)
    /\ pc = "text"

Init ==
    /\ (InitValue \/ InitText)
    /\ valid = <<>>
    /\ merr = ""
    /\ dst = Zero(typ)
    /\ err = ""
    /\ spins = 0

\* MarshalWithOptions(val, opts).  No path of the encoder returns an error.
\* When the call enters the loop without exit, data is the buffer as
\* written up to there.
\* reflect.Value.MapKeys: the keys "in unspecified order", any enumeration
\* of the entries
MapKeys(entries) ==
    {s \in [1..Cardinality(entries) -> entries] : \A i, j \in 1..Cardinality(entries) : s[i] = s[j] => i = j}

\* the value with the order of every MapKeys call on it fixed, in each way
RECURSIVE Iterations(_, _)
RECURSIVE IterationsFrom(_, _, _)
IterationsFrom(ts, vs, i) ==
    IF i > Len(vs) THEN {<<>>}
    ELSE {<<h>> \o r : h \in Iterations(ts[i], vs[i]), r \in IterationsFrom(ts, vs, i + 1)}

Iterations(t, v) ==
    CASE t.kind = "map" -> {[v EXCEPT !.val.entries = keys] : keys \in MapKeys(v.val.entries)}
      [] t.kind = "struct" ->
            {StructV(f) : f \in IterationsFrom([i \in 1..Len(t.fields) |-> t.fields[i].type], v.val, 1)}
      [] t.kind = "slice" ->
            {[v EXCEPT !.val.elems = es] : es \in IterationsFrom([i \in 1..Len(v.val.elems) |-> t.elem], v.val.elems, 1)}
      [] OTHER -> {v}

Marshal ==
    /\ pc = "value"
    /\ \E it \in Iterations(typ, val) :
       LET r == encode(opts, typ, it)
       IN /\ pc' = (CASE r.st = "ok" -> "text" [] r.st = "hang" -> "spin" [] r.st = "panic" -> "panic")
          /\ data' = IF r.st = "panic" THEN <<>> ELSE r.out
    /\ merr' = ""
    /\ UNCHANGED <<opts, typ, val, dst, err, spins, doc, valid>>

\* one more turn of the loop of encodeListSlice on a nil element: it writes
\* "null\n" to the buffer, which is returned to nobody, and the condition of
\* the loop holds as before
SpinNull ==
    /\ pc = "spin"
    /\ spins' = (spins + 1) % (MaxSpin + 1)
    /\ UNCHANGED <<pc, opts, typ, val, data, merr, dst, err, doc, valid>>

\* Unmarshal(data, &dst) with dst a fresh variable of type typ
Unmarshal ==
    /\ pc = "text"
    /\ LET r == decode(data, typ, Zero(typ))
       IN /\ dst' = r.v
          /\ err' = r.err
          /\ pc' = IF r.err = "panic" THEN "panic" ELSE "done"
    /\ UNCHANGED <<opts, typ, val, data, merr, spins, doc, valid>>

\* the caller asks Valid about the text it holds
CheckValid ==
    /\ pc = "text"
    /\ valid = <<>>
    /\ valid' = <<Valid(data)>>
    /\ UNCHANGED <<pc, opts, typ, val, data, merr, dst, err, spins, doc>>

Next == Marshal \/ SpinNull \/ Unmarshal \/ CheckValid

Spec == Init /\ [][Next]_vars

\* a loop that can take another turn takes it: the encoder is sequential code
\* that nothing suspends
FairSpec == Spec /\ WF_vars(SpinNull)

(***************************************************************************)
(* Properties of the text Marshal writes and of what Unmarshal makes of it *)
(***************************************************************************)
FromMarshal == doc.kind = "none"

Written == pc \in {"text", "done"} /\ FromMarshal

RoundTripped == pc = "done" /\ FromMarshal

Elems(v) == v.val.elems

\* C1: a record whose fields are all scalars comes back from
\* Unmarshal(Marshal(x)) without an error and equal to x field by field,
\* whatever its fields hold, the empty string included
C1_FlatRecordRoundTrip == (RoundTripped /\ typ = HikeT) => (err = "" /\ dst = val)

\* C2: a non-empty sequence of strings in a record field comes back from
\* Unmarshal(Marshal(x)) with the same elements in the same order, for the
\* delimiters comma, tab and pipe, empty strings and strings that hold a
\* delimiter character included
C2_InlineArrayRoundTrip ==
    (RoundTripped /\ typ = FriendsT /\ Len(Elems(val.val[1])) > 0) => (err = "" /\ dst.val[1] = val.val[1])

NeedsQuotes(s, d) == Contains(s, d[1]) \/ Contains(s, QUOTE)

HikeTextWith(name) ==
    HikeText(FormatInt(val.val[1].val), name, FormatFloat(val.val[3].val), FormatBool(val.val[4].val))

SameAt(i, j) == i <= Len(Elems(dst.val[j])) /\ Elems(dst.val[j])[i] = Elems(val.val[j])[i]

\* C3: a string that holds the active delimiter or a double quote is written
\* in double quotes with its double quotes escaped, and decoding gives the
\* string back, as a plain field, as an element of an inline array and as a
\* cell of a tabular row
C3_QuotedStringRoundTrip ==
    RoundTripped =>
        /\ (typ = HikeT /\ NeedsQuotes(val.val[2].val, opts.Delimiter)) =>
               (data = HikeTextWith(quoteString(val.val[2].val)) /\ dst.val[2] = val.val[2])
        /\ typ = FriendsT =>
               \A i \in 1..Len(Elems(val.val[1])) :
                   NeedsQuotes(Elems(val.val[1])[i].val, opts.Delimiter) => SameAt(i, 1)
        /\ (typ = UsersT /\ opts.UseTabular) =>
               \A i \in 1..Len(Elems(val.val[1])) :
                   NeedsQuotes(Elems(val.val[1])[i].val[2].val, opts.Delimiter) => SameAt(i, 1)

QuotedIfAny(s, chars) == IF ContainsAny(s, chars) THEN quoteString(s) ELSE s

\* C4, as the code has it: whatever the configured delimiter, a string is
\* written in double quotes, its double quotes escaped, exactly when it holds
\* a comma, a pipe, a tab or a newline; every other string is written as is
C4_QuotedOnCommaPipeTabNewline ==
    (Written /\ typ = HikeT) => data = HikeTextWith(QuotedIfAny(val.val[2].val, {",", "|", TAB, NL}))

\* C4, as stated: under delimiter d a string is written in double quotes
\* exactly when it holds d, a pipe, a tab or a newline, so that under tab or
\* pipe a string whose only special character is a comma is written as is
C4_QuotedOnActiveDelimiter ==
    (Written /\ typ = HikeT) => data = HikeTextWith(QuotedIfAny(val.val[2].val, {opts.Delimiter[1], "|", TAB, NL}))

\* C4: a comma-only string under the tab delimiter, written in quotes
C4_CommaQuotedUnderTab ==
    /\ Written /\ typ = HikeT
    /\ opts.Delimiter = DelimiterTab
    /\ val.val[2].val = <<",">>
    /\ data = HikeTextWith(<<QUOTE, ",", QUOTE>>)

Spaces(n) == [i \in 1..n |-> SP]

UsersHeader(n) == T_users \o <<"[">> \o FormatInt(n) \o <<"]", "{">> \o T_id \o <<",">> \o T_name \o <<"}", ":">>

\* a row of User: the two emitted fields, the name as is or in quotes
UserRows(u) ==
    {Spaces(opts.Indent) \o FormatInt(u.val[1].val) \o opts.Delimiter \o name :
        name \in {u.val[2].val, quoteString(u.val[2].val)}}

\* C5: a sequence of N >= 1 uniform flat records with k emitted fields is
\* written, in tabular mode, as the header <key>[N]{c1,...,ck}: with the
\* resolved names in declaration order and then exactly N row lines, one unit
\* deeper, of k delimiter-joined values each
C5_TabularHeaderAndRows ==
    (Written /\ typ = UsersT /\ opts.UseTabular /\ Len(Elems(val.val[1])) > 0) =>
        LET us == Elems(val.val[1])
            lines == Split(data, NL)
        IN /\ Len(lines) = Len(us) + 3
           /\ lines[1] = UsersHeader(Len(us))
           /\ \A i \in 1..Len(us) : lines[i + 1] \in UserRows(us[i])
           /\ lines[Len(us) + 2] = T_count \o <<":", SP, "3">>
           /\ lines[Len(us) + 3] = <<>>

\* the record a laid-out row stands for: each field from the column of its name
UserOf(row, cols) ==
    StructV(<<IntV(IF \E j \in 1..Len(cols) : cols[j] = T_id THEN row.id ELSE 0),
              StrV(IF \E j \in 1..Len(cols) : cols[j] = T_name THEN row.name ELSE <<>>),
              StrV(<<>>)>>)

UsersOf(d) == StructV(<<SliceV([i \in 1..Len(d.rows) |-> UserOf(d.rows[i], d.cols)]), IntV(IF d.tail THEN 3 ELSE 0)>>)

Reordered(d) == {e \in TabularDocs : e.rows = d.rows /\ e.delim = d.delim /\ e.tail = d.tail
                                     /\ {e.cols[j] : j \in 1..Len(e.cols)} = {d.cols[j] : j \in 1..Len(d.cols)}}

C7_NestedRecordRoundTrip ==
    (RoundTripped /\ typ \in {OuterT, DeepT} /\ opts.Indent >= 1) => (err = "" /\ dst = val)

FriendsAt == IF typ = FriendsT THEN 1 ELSE 2

EmptyFriendsLine == T_friends \o <<"[", "0", "]", ":", NL>>

\* C8: an empty sequence in a record field is written as <key>[0]: and
\* decoded to a sequence of length zero that is not null, as the last line
\* of the text and before further fields
C8_EmptySequenceNotNull ==
    (RoundTripped /\ typ \in {FriendsT, FriendsLastT} /\ Elems(val.val[FriendsAt]) = <<>>) =>
        /\ data = (IF typ = FriendsT THEN EmptyFriendsLine \o CountLine ELSE CountLine \o EmptyFriendsLine)
        /\ err = ""
        /\ dst.val[FriendsAt] = SliceV(<<>>)

\* C9: every Marshal call runs to completion, on sequences of optional
\* records with a null element too: a call that is inside the item loop of
\* encodeListSlice has, at some later time, left it and returned
C9_MarshalEnds == (pc = "spin") ~> (pc \in {"text", "done"})

Unclassified(t) == t.kind \in {"func", "chan"} \/ (t.kind = "struct" /\ \E i \in 1..Len(t.fields) : t.fields[i].type.kind \in {"func", "chan"})

\* C10: Marshal of a value that is, or has a field that is, a func or a chan
\* returns an UnsupportedTypeError and no text
C10_UnsupportedTypeError ==
    (pc \in {"text", "done"} /\ FromMarshal /\ Unclassified(typ)) => (merr = "unsupported" /\ data = <<>>)

\* C11: when Unmarshal returns an error, the destination holds no value the
\* failed call assigned: it is as it was before the call
C11_NoPartialResult == (pc = "done" /\ doc.kind = "hike" /\ err # "") => dst = Zero(typ)

OneUser == StructV(<<SliceV(<<StructV(<<IntV(1), StrV(<<"a">>), StrV(<<>>)>>)>>), IntV(3)>>)

\* C12: an unknown key, an array header whose length is no number and a
\* tabular block with fewer rows than declared make no error, and the known
\* fields before and after them are decoded to their values
C12_LenientDecoding == (pc = "done" /\ doc.kind = "lenient") => (err = "" /\ dst = OneUser)

\* the users of a value with the field named `-` emptied
NoSecret(u) == StructV(<<u.val[1], u.val[2], StrV(<<>>)>>)

NoSecrets(v) == StructV(<<SliceV([i \in 1..Len(Elems(v.val[1])) |-> NoSecret(Elems(v.val[1])[i])]), v.val[2]>>)

SecretsOf(v) == IF v.kind = "slice" THEN {Elems(v)[i].val[3] : i \in 1..Len(Elems(v))} ELSE {v.val[3]}

\* C13: a field whose resolved name is `-` is never written by Marshal (the
\* text does not depend on what the field holds) and never assigned by
\* Unmarshal, also when a tabular header lists `-` as a column or a line has
\* the key `-`
C13_DashFieldUntouched ==
    /\ (pc = "text" /\ FromMarshal /\ typ = UsersT) => data = encode(opts, typ, NoSecrets(val)).out
    /\ (pc = "done" /\ doc.kind = "dash")
          => SecretsOf(IF typ = UserT THEN dst ELSE dst.val[1]) \subseteq {StrV(<<>>)}

\* C14: the entries of a mapping are written in a deterministic order: the
\* text Marshal returned is the text every Marshal call on the same value
\* with the same options returns
C14_MapOrderDeterministic ==
    (pc = "text" /\ FromMarshal /\ typ \in {ScoreMapT, ScoresT, ItemsT})
        => \A it \in Iterations(typ, val) : encode(opts, typ, it).out = data

\* C15: Valid returns true exactly when every line that is neither blank nor
\* a comment (`#` first after trimming) holds a colon or an opening bracket,
\* so true for a text with no such line and false as soon as one such line
\* holds neither
C15_ValidLineTest ==
    (doc.kind = "lines" /\ valid # <<>>)
        => (valid[1] <=> \A i \in 1..Len(doc.lines) : doc.lines[i] \notin BareLines)

\* Valid has said false of a text that has a comment, a line with a colon
\* and then a line with neither
C15_CommentMarkedBare ==
    /\ doc.kind = "lines" /\ valid = <<FALSE>>
    /\ doc.lines = <<<<SP, "#", "a">>, <<"a", ":">>, <<"a", "#">>>>

\* the kinds of value the format calls scalar
ScalarKinds == {"string", "int", "float64", "bool"}

\* every element is a record (none is null) and no emitted field of the
\* element type holds a record, a sequence or a mapping, an optional one
\* included
AllFlatRecords(t, v) ==
    /\ BaseType(t.elem).kind = "struct"
    /\ \A i \in 1..Len(Elems(v)) : ~Deref(t.elem, Elems(v)[i]).isNil
    /\ \A j \in 1..Len(BaseType(t.elem).fields) :
          getFieldName(BaseType(t.elem).fields[j]) # DASH
              => BaseType(BaseType(t.elem).fields[j].type).kind \in ScalarKinds

\* the text written so far starts with the header of the form
StartsTabular(n) == HasPrefix(data, T_users \o <<"[">> \o FormatInt(n) \o <<"]", "{">>)
StartsList(n) == HasPrefix(data, T_users \o <<"[">> \o FormatInt(n) \o <<"]", ":", NL>>)

\* C16: a sequence is written in Tabular form only when tabular mode is on,
\* it has an element, and every element is a record whose emitted fields
\* are all scalars; with a field that holds a record, sequence or mapping
\* (also an optional one), or with a null element, it is written in List form
C16_TabularOnlyForFlatRecords ==
    (FromMarshal /\ pc # "value" /\ typ \in {UsersT, UserPtrsT, BoxesT} /\ Len(Elems(val.val[1])) > 0)
        => IF opts.UseTabular /\ AllFlatRecords(typ.fields[1].type, val.val[1])
           THEN StartsTabular(Len(Elems(val.val[1])))
           ELSE StartsList(Len(Elems(val.val[1])))

\* C17: the length N a header <key>[N] declares bounds what is consumed for
\* the field: in Inline, Tabular and List form the decoded sequence has at
\* most N elements
C17_DeclaredLengthBounds ==
    (pc = "done" /\ doc.kind = "declared") => Len(Elems(dst.val[1])) <= doc.n

\* C18: a scalar text decoded into a target of type any gives null for the
\* literal null, else an integer if it parses as one in base 10, else a
\* float if it parses as one, else a boolean if it parses as one, else the
\* text as a string; the first rule that matches wins
C18_InferenceOrder ==
    (pc = "done" /\ doc.kind = "any") => (err = "" /\ dst = StructV(<<AnyCases[doc.case][2]>>))

\* `v: 1` has been decoded, to the integer 1
C18_OneIsInteger ==
    /\ pc = "done" /\ doc.kind = "any" /\ AnyCases[doc.case][1] = <<"1">>
    /\ dst = StructV(<<InterfaceOf(Int64V(1))>>)

\* C19: every text Marshal returns is accepted by Valid, Tabular blocks and
\* List-form sequences of scalars included
C19_MarshalOutputValid == (Written /\ valid # <<>>) => valid[1]

\* C20: a null optional scalar field is written `<key>: null` and comes back
\* null, without an error, for optional strings, integers, floats and booleans
C20_NullOptionalRoundTrip ==
    (Written /\ typ \in OptionalTypes /\ val.val[1] = NilPtr)
        => /\ data = Line(T_name, <<"n", "u", "l", "l">>) \o CountLine
           /\ pc = "done" => (err = "" /\ dst = val)

\* C21: a line whose key names no field of the record, and the more deeply
\* indented lines of its block, assign no field: the decoded record is the
\* one decoded from the same document with the whole block removed
C21_UnknownBlockSkipped ==
    (pc = "done" /\ doc.kind = "block")
        => /\ err = decode(BlockRemoved, typ, Zero(typ)).err
           /\ dst = decode(BlockRemoved, typ, Zero(typ)).v

=============================================================================
